---- MODULE Spec2Model ----
(***************************************************************************)
(* A model of the research agent: the structured completion client        *)
(* (src/util/call_llm.py), the search utility (src/util/search_web.py),   *)
(* the five stage nodes (src/nodes.py), the stage graph (src/flow.py) and *)
(* the driver (src/app.py).                                               *)
(*                                                                         *)
(* Texts are sequences of symbols.  A symbol is one character of the text *)
(* ("{", "}", "[", "]", ",", ":", the double quote, a blank, the digit    *)
(* "7") or a run of letters that holds none of those ("x", "action").     *)
(* Python values are records [kind, txt, mem]: None, a number, a string,  *)
(* a list (mem a sequence) or a dict (mem a function from key texts).     *)
(***************************************************************************)
EXTENDS Integers, Sequences, FiniteSets, TLC

(***************************************************************************)
(* Python values                                                           *)
(***************************************************************************)
None == [kind |-> "null", txt |-> <<>>, mem |-> <<>>]

Num(t) == [kind |-> "num", txt |-> t, mem |-> <<>>]

Str(t) == [kind |-> "str", txt |-> t, mem |-> <<>>]

List(items) == [kind |-> "arr", txt |-> <<>>, mem |-> items]

Dict(f) == [kind |-> "obj", txt |-> <<>>, mem |-> f]

EmptyDict == Dict(<<>>)

\* the key text of a one-word key
K(w) == <<w>>

\* d[k] = v on a dict's members (a repeated key keeps the last value)
SetItem(f, k, v) == [x \in (DOMAIN f) \cup {k} |-> IF x = k THEN v ELSE f[x]]

IsDict(v) == v.kind = "obj"

IsList(v) == v.kind = "arr"

IsStr(v) == v.kind = "str"

HasKey(v, w) == IsDict(v) /\ K(w) \in DOMAIN v.mem

\* dict.get(key, default)
Get(v, w, default) == IF K(w) \in DOMAIN v.mem THEN v.mem[K(w)] ELSE default

(***************************************************************************)
(* json.loads: a recursive-descent reading of the text, as the decoder    *)
(* of the standard library does it.                                        *)
(***************************************************************************)
QT == "\""

WS == " "

DIGIT == "7"

NoParse == [ok |-> FALSE, val |-> None, nxt |-> 0]

Parsed(v, n) == [ok |-> TRUE, val |-> v, nxt |-> n]

RECURSIVE SkipWs(_, _)
SkipWs(s, i) == IF i <= Len(s) /\ s[i] = WS THEN SkipWs(s, i + 1) ELSE i

\* the position of the first symbol c at or after i, 0 when there is none
RECURSIVE FindFrom(_, _, _)
FindFrom(s, c, i) ==
    IF i > Len(s) THEN 0
    ELSE IF s[i] = c THEN i
    ELSE FindFrom(s, c, i + 1)

\* the position of the last symbol c at or before i, 0 when there is none
RECURSIVE FindBack(_, _, _)
FindBack(s, c, i) ==
    IF i < 1 THEN 0
    ELSE IF s[i] = c THEN i
    ELSE FindBack(s, c, i - 1)

\* s[i] is the opening quote: the literal runs to the next quote
ScanString(s, i) ==
    LET j == FindFrom(s, QT, i + 1)
    IN  IF j = 0 THEN NoParse ELSE Parsed(Str(SubSeq(s, i + 1, j - 1)), j + 1)

RECURSIVE DigitsEnd(_, _)
DigitsEnd(s, i) == IF i <= Len(s) /\ s[i] = DIGIT THEN DigitsEnd(s, i + 1) ELSE i

ScanNumber(s, i) ==
    LET j == DigitsEnd(s, i) IN Parsed(Num(SubSeq(s, i, j - 1)), j)

RECURSIVE ScanValue(_, _)
RECURSIVE ScanMembers(_, _, _)
RECURSIVE ScanItems(_, _, _)

\* s[i] must open a key: "key" : value, then "," and another member, or "}"
ScanMembers(s, i, acc) ==
    IF i > Len(s) \/ s[i] # QT THEN NoParse
    ELSE LET key == ScanString(s, i)
         IN  IF ~key.ok THEN NoParse
             ELSE LET c == SkipWs(s, key.nxt)
                  IN  IF c > Len(s) \/ s[c] # ":" THEN NoParse
                      ELSE LET v == ScanValue(s, SkipWs(s, c + 1))
                           IN  IF ~v.ok THEN NoParse
                               ELSE LET e   == SkipWs(s, v.nxt)
                                        got == SetItem(acc, key.val.txt, v.val)
                                    IN  IF e > Len(s) THEN NoParse
                                        ELSE IF s[e] = "}" THEN Parsed(Dict(got), e + 1)
                                        ELSE IF s[e] = "," THEN ScanMembers(s, SkipWs(s, e + 1), got)
                                        ELSE NoParse

\* i is the position after "{"
ScanObject(s, i) ==
    LET b == SkipWs(s, i)
    IN  IF b <= Len(s) /\ s[b] = "}" THEN Parsed(EmptyDict, b + 1)
        ELSE ScanMembers(s, b, <<>>)

\* value, then "," and another value, or "]"
ScanItems(s, i, acc) ==
    LET v == ScanValue(s, i)
    IN  IF ~v.ok THEN NoParse
        ELSE LET e   == SkipWs(s, v.nxt)
                 got == Append(acc, v.val)
             IN  IF e > Len(s) THEN NoParse
                 ELSE IF s[e] = "]" THEN Parsed(List(got), e + 1)
                 ELSE IF s[e] = "," THEN ScanItems(s, SkipWs(s, e + 1), got)
                 ELSE NoParse

\* i is the position after "["
ScanArray(s, i) ==
    LET b == SkipWs(s, i)
    IN  IF b <= Len(s) /\ s[b] = "]" THEN Parsed(List(<<>>), b + 1)
        ELSE ScanItems(s, b, <<>>)

ScanValue(s, i) ==
    IF i > Len(s) THEN NoParse
    ELSE IF s[i] = QT THEN ScanString(s, i)
    ELSE IF s[i] = "{" THEN ScanObject(s, i + 1)
    ELSE IF s[i] = "[" THEN ScanArray(s, i + 1)
    ELSE IF s[i] = DIGIT THEN ScanNumber(s, i)
    ELSE IF s[i] = "null" THEN Parsed(None, i + 1)
    ELSE NoParse

\* json.loads(s): one value between blanks and nothing else
JsonLoads(s) ==
    LET v == ScanValue(s, SkipWs(s, 1))
    IN  IF v.ok /\ SkipWs(s, v.nxt) = Len(s) + 1 THEN v ELSE NoParse

(***************************************************************************)
(* json.dumps: the text of a value, with the default ", " and ": "        *)
(* separators.  It writes the texts the model under test answers with.    *)
(***************************************************************************)
RECURSIVE JsonDumps(_)
RECURSIVE DumpItems(_, _)
RECURSIVE DumpMembers(_, _)

DumpItems(items, i) ==
    IF i > Len(items) THEN <<>>
    ELSE (IF i > 1 THEN <<",", WS>> ELSE <<>>) \o JsonDumps(items[i]) \o DumpItems(items, i + 1)

DumpMembers(f, keys) ==
    IF keys = {} THEN <<>>
    ELSE LET k == CHOOSE x \in keys : TRUE
         IN  <<QT>> \o k \o <<QT, ":", WS>> \o JsonDumps(f[k])
             \o (IF keys = {k} THEN <<>> ELSE <<",", WS>>)
             \o DumpMembers(f, keys \ {k})

JsonDumps(v) ==
    IF v.kind = "null" THEN <<"null">>
    ELSE IF v.kind = "num" THEN v.txt
    ELSE IF v.kind = "str" THEN <<QT>> \o v.txt \o <<QT>>
    ELSE IF v.kind = "arr" THEN <<"[">> \o DumpItems(v.mem, 1) \o <<"]">>
    ELSE <<"{">> \o DumpMembers(v.mem, DOMAIN v.mem) \o <<"}">>

(***************************************************************************)
(* The completion provider's answer to one request: the call raises, or   *)
(* the message holds no content (None), or it holds a text.               *)
(***************************************************************************)
Raises == [kind |-> "raise", chars |-> <<>>]

NoContent == [kind |-> "none", chars |-> <<>>]

Text(s) == [kind |-> "text", chars |-> s]

(***************************************************************************)
(* What a call comes to: a returned value or a raised exception.          *)
(***************************************************************************)
Returned(v) == [kind |-> "value", val |-> v, raw |-> <<>>]

Raised(exc, raw) == [kind |-> exc, val |-> None, raw |-> raw]

\* as call_llm_json_async, but an answer that cannot be read comes back as {}
CallLlmJsonSwallows(response, response_model) ==
    IF response.kind = "raise" THEN Raised("APIError", <<>>)
    ELSE IF response.kind = "none" THEN Raised("TypeError", <<>>)
    ELSE LET content == response.chars
             direct  == JsonLoads(content)
             first   == FindFrom(content, "{", 1)
             last    == FindBack(content, "}", Len(content))
             recover == JsonLoads(SubSeq(content, first, last))
         IN  IF direct.ok THEN Returned(direct.val)
             ELSE IF first = 0 \/ last = 0 THEN Returned(EmptyDict)
             ELSE IF recover.ok THEN Returned(recover.val)
             ELSE Returned(EmptyDict)

\* as call_llm_json_async, but the span ends at the first "}"
CallLlmJsonFirstClose(response, response_model) ==
    IF response.kind = "raise" THEN Raised("APIError", <<>>)
    ELSE IF response.kind = "none" THEN Raised("TypeError", <<>>)
    ELSE LET content == response.chars
             direct  == JsonLoads(content)
             first   == FindFrom(content, "{", 1)
             last    == FindFrom(content, "}", 1)
             recover == JsonLoads(SubSeq(content, first, last))
         IN  IF direct.ok THEN Returned(direct.val)
             ELSE IF first = 0 \/ last = 0 THEN Raised("ValueError", content)
             ELSE IF recover.ok THEN Returned(recover.val)
             ELSE Raised("ValueError", content)

\* call_llm_json_async: the direct parse, then one parse of the span from the
\* first "{" to the last "}"; the response model only shapes the request
CallLlmJson(response, response_model) ==
    IF response.kind = "raise" THEN Raised("APIError", <<>>)
    ELSE IF response.kind = "none" THEN Raised("TypeError", <<>>)
    ELSE LET content == response.chars
             direct  == JsonLoads(content)
             first   == FindFrom(content, "{", 1)
             last    == FindBack(content, "}", Len(content))
             recover == JsonLoads(SubSeq(content, first, last))
         IN  IF direct.ok THEN Returned(direct.val)
             ELSE IF first = 0 \/ last = 0 THEN Raised("ValueError", content)
             ELSE IF recover.ok THEN Returned(recover.val)
             ELSE Raised("ValueError", content)

\* call_llm_async: the content of the first choice, as it is
CallLlm(response) ==
    IF response.kind = "raise" THEN Raised("APIError", <<>>)
    ELSE IF response.kind = "none" THEN Returned(None)
    ELSE Returned(Str(response.chars))

(***************************************************************************)
(* Python's truth value, len() and the f-string text of a count            *)
(***************************************************************************)
Truthy(v) ==
    IF v.kind = "null" THEN FALSE
    ELSE IF v.kind = "arr" THEN Len(v.mem) > 0
    ELSE IF v.kind = "obj" THEN DOMAIN v.mem # {}
    ELSE IF v.kind = "str" THEN Len(v.txt) > 0
    ELSE TRUE

HasLen(v) == v.kind \in {"arr", "obj", "str"}

PyLen(v) ==
    IF v.kind = "arr" THEN Len(v.mem)
    ELSE IF v.kind = "obj" THEN Cardinality(DOMAIN v.mem)
    ELSE Len(v.txt)

Word(w) == Str(<<w>>)

(***************************************************************************)
(* The response models of src/nodes.py, as pydantic would validate them.  *)
(* call_llm_json_async sends their JSON schema with the request and never *)
(* validates the answer against them.                                      *)
(***************************************************************************)
IsStrOrNone(v) == v.kind \in {"str", "null"}

IsStrList(v) == IsList(v) /\ \A j \in 1..Len(v.mem) : IsStr(v.mem[j])

HasExactly(v, keys) == IsDict(v) /\ DOMAIN v.mem = {K(w) : w \in keys}

ConstraintKeys == {"audience", "depth", "region", "time_scope", "format"}

ResearchConstraints(v) ==
    /\ HasExactly(v, ConstraintKeys)
    /\ \A w \in ConstraintKeys : IsStrOrNone(v.mem[K(w)])

ResearchRequest(v) ==
    /\ HasExactly(v, {"goal", "constraints"})
    /\ IsStr(v.mem[K("goal")])
    /\ ResearchConstraints(v.mem[K("constraints")])

SubQuestion(v) ==
    /\ HasExactly(v, {"id", "description", "priority", "dependencies", "suggested_tools", "notes"})
    /\ IsStr(v.mem[K("id")])
    /\ IsStr(v.mem[K("description")])
    /\ v.mem[K("priority")].kind = "num"
    /\ IsStrList(v.mem[K("dependencies")])
    /\ IsStrList(v.mem[K("suggested_tools")])
    /\ IsStr(v.mem[K("notes")])

ResearchPlan(v) ==
    /\ HasExactly(v, {"overall_objective", "subquestions", "global_strategy"})
    /\ IsStr(v.mem[K("overall_objective")])
    /\ IsList(v.mem[K("subquestions")])
    /\ \A j \in 1..Len(v.mem[K("subquestions")].mem) : SubQuestion(v.mem[K("subquestions")].mem[j])
    /\ IsStr(v.mem[K("global_strategy")])

ActionNames == {"plan", "execute", "reflect", "synthesize"}

AgentAction(v) ==
    /\ HasExactly(v, {"action", "reason"})
    /\ v.mem[K("action")] \in {Word(a) : a \in ActionNames}
    /\ IsStr(v.mem[K("reason")])

MinQueries == 3

MaxQueries == 5

SearchQueries(v) ==
    /\ HasExactly(v, {"queries"})
    /\ IsStrList(v.mem[K("queries")])
    /\ Len(v.mem[K("queries")].mem) >= MinQueries
    /\ Len(v.mem[K("queries")].mem) <= MaxQueries

Conforms(response_model, v) ==
    IF response_model = "ResearchRequest" THEN ResearchRequest(v)
    ELSE IF response_model = "ResearchPlan" THEN ResearchPlan(v)
    ELSE IF response_model = "AgentAction" THEN AgentAction(v)
    ELSE SearchQueries(v)

(***************************************************************************)
(* Bounds of the model                                                     *)
(***************************************************************************)
\* the plans the model under test answers with hold 0..MaxSubq subquestions
MaxSubq == 2

\* the prose put around a JSON text is at most this long
MaxProse == 1

\* the texts tried on the completion client are at most this long
MaxText == 3

(***************************************************************************)
(* What the language model may answer.  Every answer is a text; the       *)
(* values below are written with json.dumps and read back by the client.  *)
(***************************************************************************)
MkDict(keys, f(_)) == Dict([k \in {K(w) : w \in keys} |-> f(k[1])])

TheConstraints == MkDict(ConstraintKeys, LAMBDA w : IF w = "depth" THEN Word("deep") ELSE None)

TheRequest == MkDict({"goal", "constraints"},
                     LAMBDA w : IF w = "goal" THEN Word("goal") ELSE TheConstraints)

\* a conforming subquestion with the given id; Q1, the first of every plan, has
\* the lowest priority (77, the others 7) and depends on Q2
SubQ(id) ==
    MkDict({"id", "description", "priority", "dependencies", "suggested_tools", "notes"},
           LAMBDA w : IF w = "id" THEN Word(id)
                      ELSE IF w = "description" THEN Word("about" \o id)
                      ELSE IF w = "priority"
                           THEN (IF id = "Q1" THEN Num(<<DIGIT, DIGIT>>) ELSE Num(<<DIGIT>>))
                      ELSE IF w = "notes" THEN Word("hint")
                      ELSE IF w = "dependencies" /\ id = "Q1" THEN List(<<Word("Q2")>>)
                      ELSE List(<<>>))

\* a subquestion without its description
SubQNoDescription == MkDict({"id"}, LAMBDA w : Word("Q1"))

PlanWith(subqs) ==
    MkDict({"overall_objective", "subquestions", "global_strategy"},
           LAMBDA w : IF w = "subquestions" THEN List(subqs) ELSE Word(w))

\* the conforming plan of n subquestions Q1..Qn
PlanOf(n) == PlanWith([j \in 1..n |-> SubQ("Q" \o ToString(j))])

\* two subquestions under one id
PlanDuplicateIds == PlanWith(<<SubQ("Q1"), SubQ("Q1")>>)

PlanNoSubquestions == MkDict({"overall_objective"}, LAMBDA w : Word(w))

PlanBadSubquestion == PlanWith(<<SubQNoDescription>>)

ActionOf(a) == MkDict({"action", "reason"}, LAMBDA w : IF w = "action" THEN Word(a) ELSE Word("why"))

ActionMissing == MkDict({"reason"}, LAMBDA w : Word("why"))

QueriesOf(n) == MkDict({"queries"}, LAMBDA w : List([j \in 1..n |-> Word("q" \o ToString(j))]))

QueriesMissing == EmptyDict

\* a text that is no JSON and holds no braces, and one whose braces hold no JSON
Unparseable == {<<"I", WS, "cannot">>, <<"{", "oops", "}">>}

\* the JSON text of v, bare or wrapped in prose
TextsOf(v) == {Text(JsonDumps(v)), Text(<<"Here", ":", WS>> \o JsonDumps(v) \o <<WS, "ok">>)}

Failures == {Raises, NoContent} \cup {Text(t) : t \in Unparseable}

ClarifyResponses ==
    Failures \cup TextsOf(TheRequest) \cup {Text(JsonDumps(MkDict({"goal"}, LAMBDA w : None)))}
             \cup {Text(<<DIGIT>>)}

PlanResponses ==
    Failures \cup UNION {TextsOf(PlanOf(n)) : n \in 0..MaxSubq}
             \cup {Text(JsonDumps(v)) : v \in {PlanDuplicateIds, PlanNoSubquestions, PlanBadSubquestion}}
             \cup {Text(<<DIGIT>>)}

DecideResponses ==
    Failures \cup UNION {TextsOf(ActionOf(a)) : a \in ActionNames}
             \cup {Text(JsonDumps(v)) : v \in {ActionOf("foo"), ActionMissing}}
             \cup {Text(<<DIGIT>>)}

QueriesResponses ==
    Failures \cup TextsOf(QueriesOf(MinQueries))
             \cup {Text(JsonDumps(v)) : v \in {QueriesOf(MaxQueries + 1), QueriesMissing}}
             \cup {Text(<<DIGIT>>)}

\* the search provider yields 0..MaxHits items for a query, or fails
MaxHits == 1

(***************************************************************************)
(* State                                                                   *)
(***************************************************************************)
VARIABLES
    shared,       \* the run's shared store (app.py), a dict of the fields below
    run,          \* the driver: "running", "done" (report sent) or "error"
    node,         \* the stage the flow is at, "none" once the flow has ended
    phase,        \* where that stage is: "prep", "exec", "post", inside Execute's
                  \* loop "queries", "search", "summarize"; "raised" after an exception
    prep_res,     \* what the stage's prep_async returned
    exec_res,     \* what the stage's exec_async returned
    frame,        \* the locals of ExecutePlanNode.exec_async: the subquestion's index i,
                  \* its queries, the index q of the next query, the aggregated results
                  \* and the notes so far; failed counts the subquestion's failed searches,
                  \* log lists the calls made so far
    label,        \* the action the last post_async returned
    error,        \* the exception that ended the run, "" when there is none
    calls,        \* how often Clarify, Decide and Synthesize were entered, how often
                  \* Plan or Execute (Work), Decide's model calls, and whether some
                  \* search call failed and whether some search call returned
    request,      \* the completion client on its own: the answer it is given
    outcome,      \* and what the call came to
    peer,         \* two user messages: the run of the other message, suspended at
                  \* an await, with the message's number
    lookup        \* search_web on its own: the query, num_results, what the
                  \* provider yields, and what the call came to

vars == <<shared, run, node, phase, prep_res, exec_res, frame, label, error, calls,
          request, outcome, peer, lookup>>

flowVars == <<shared, run, node, phase, prep_res, exec_res, frame, label, error, calls>>

MAX_STEPS == 8

NoPrep ==
    [user_query |-> None, goal |-> None, constraints |-> None, plan |-> None,
     notes |-> None, reflection |-> None, steps |-> 0,
     last_action |-> None, last_observation |-> None]

NoFrame ==
    [i |-> 0, queries |-> <<>>, q |-> 0, aggregated |-> <<>>, notes |-> None, failed |-> 0,
     log |-> <<>>]

\* a call that exec_async made and that returned: the subquestion's description
\* or the query it was made with, and for the queries the list it came to
Call(kind, with, queries) == [kind |-> kind, with |-> with, queries |-> queries]

NoCalls ==
    [Clarify |-> 0, Work |-> 0, Decide |-> 0, Synthesize |-> 0, decide_llm |-> 0,
     search_failed |-> FALSE, search_ok |-> FALSE]

NoRequest == [response |-> Raises, response_model |-> "", lead |-> <<>>, obj |-> None, trail |-> <<>>]

NoOutcome == [kind |-> "", val |-> None, raw |-> <<>>]

\* main: the shared store of a new run
InitialShared ==
    [user_query |-> Word("query"), goal |-> None, constraints |-> EmptyDict,
     plan |-> EmptyDict, notes |-> EmptyDict, reflection |-> EmptyDict,
     report |-> Str(<<>>), steps |-> 0,
     last_action |-> None, last_observation |-> None]

SuccessorsReflectPlans(from, lbl) ==
    IF from = "Clarify" /\ lbl = "default" THEN "Plan"
    ELSE IF from \in {"Plan", "Execute"} /\ lbl = "decide" THEN "Decide"
    ELSE IF from = "Decide" /\ lbl = "execute" THEN "Execute"
    ELSE IF from = "Decide" /\ lbl = "synthesize" THEN "Synthesize"
    ELSE IF from = "Decide" /\ lbl \in {"plan", "reflect"} THEN "Plan"
    ELSE "none"

\* as create_agent_flow, with an edge from Synthesize back to Decide
SuccessorsSynthesizeGoesOn(from, lbl) ==
    IF from = "Clarify" /\ lbl = "default" THEN "Plan"
    ELSE IF from \in {"Plan", "Execute"} /\ lbl = "decide" THEN "Decide"
    ELSE IF from = "Decide" /\ lbl = "execute" THEN "Execute"
    ELSE IF from = "Decide" /\ lbl \in {"synthesize", "reflect"} THEN "Synthesize"
    ELSE IF from = "Decide" /\ lbl = "plan" THEN "Plan"
    ELSE IF from = "Synthesize" /\ lbl = "default" THEN "Decide"
    ELSE "none"

\* as create_agent_flow, with Clarify wired to Decide
SuccessorsSkipPlan(from, lbl) ==
    IF from = "Clarify" /\ lbl = "default" THEN "Decide"
    ELSE IF from \in {"Plan", "Execute"} /\ lbl = "decide" THEN "Decide"
    ELSE IF from = "Decide" /\ lbl = "execute" THEN "Execute"
    ELSE IF from = "Decide" /\ lbl \in {"synthesize", "reflect"} THEN "Synthesize"
    ELSE IF from = "Decide" /\ lbl = "plan" THEN "Plan"
    ELSE "none"

\* create_agent_flow: the stage reached from a stage under a label, "none"
\* when the stage has no such edge
Successors(from, lbl) ==
    IF from = "Clarify" /\ lbl = "default" THEN "Plan"
    ELSE IF from = "Plan" /\ lbl = "decide" THEN "Decide"
    ELSE IF from = "Execute" /\ lbl = "decide" THEN "Decide"
    ELSE IF from = "Decide" /\ lbl = "execute" THEN "Execute"
    ELSE IF from = "Decide" /\ lbl = "synthesize" THEN "Synthesize"
    ELSE IF from = "Decide" /\ lbl = "plan" THEN "Plan"
    ELSE IF from = "Decide" /\ lbl = "reflect" THEN "Synthesize"
    ELSE "none"

\* the key the flow looks the returned action up under: action or "default"
EdgeLabel(action) ==
    IF ~Truthy(action) THEN "default"
    ELSE IF IsStr(action) /\ Len(action.txt) = 1 THEN action.txt[1]
    ELSE "?"

\* the flow start node and the driver's state before flow.run_async
FlowInit ==
    /\ shared = InitialShared
    /\ run = "running"
    /\ node = "Clarify"
    /\ phase = "prep"
    /\ prep_res = NoPrep
    /\ exec_res = None
    /\ frame = NoFrame
    /\ label = None
    /\ error = ""
    /\ calls = NoCalls

\* one user message: no other run
NoPeer == [id |-> 0]

NoLookup == [query |-> None, num_results |-> 0, provided |-> [kind |-> "raise", hits |-> <<>>],
             returned |-> NoOutcome]

Init ==
    /\ FlowInit
    /\ request = NoRequest
    /\ outcome = NoOutcome
    /\ peer = NoPeer
    /\ lookup = NoLookup

At(n, ph) == run = "running" /\ node = n /\ phase = ph

\* an exception leaves the stage, the flow and main
Raise(exc) ==
    /\ run' = "error"
    /\ phase' = "raised"
    /\ error' = exc

Enter(n) == calls' = [calls EXCEPT ![IF n \in {"Plan", "Execute"} THEN "Work" ELSE n] = @ + 1]

\* prep_async returned p: exec_async is next
Prepared(n, p) ==
    /\ prep_res' = p
    /\ phase' = "exec"
    /\ Enter(n)
    /\ UNCHANGED <<run, node, exec_res, frame, label, error>>

\* as Executed, but the flow goes on to the next stage while the commit waits
ExecutedStartsNext(out) ==
    /\ IF out.kind = "value"
       THEN /\ exec_res' = out.val
            /\ phase' = IF node = "Synthesize" THEN "post" ELSE "prep"
            /\ UNCHANGED <<run, error>>
       ELSE Raise(out.kind) /\ UNCHANGED exec_res
    /\ node' = IF out.kind # "value" THEN node
               ELSE IF node = "Clarify" THEN "Plan"
               ELSE IF node = "Plan" THEN "Decide"
               ELSE IF node = "Decide" THEN "Synthesize"
               ELSE node
    /\ UNCHANGED <<shared, prep_res, frame, label>>

\* exec_async came to out: post_async is next, or the exception leaves the run
Executed(out) ==
    /\ IF out.kind = "value"
       THEN exec_res' = out.val /\ phase' = "post" /\ UNCHANGED <<run, error>>
       ELSE Raise(out.kind) /\ UNCHANGED exec_res
    /\ UNCHANGED <<shared, node, prep_res, frame, label>>

\* post_async returned action: the flow moves along the edge, or ends and main
\* sends the report
Dispatch(action) ==
    /\ label' = action
    /\ node' = Successors(node, EdgeLabel(action))
    /\ IF Successors(node, EdgeLabel(action)) = "none"
       THEN run' = "done" /\ phase' = "ended"
       ELSE run' = run /\ phase' = "prep"
    /\ prep_res' = NoPrep
    /\ exec_res' = None
    /\ UNCHANGED <<frame, error, calls>>

\* post_async raised exc after writing the store as given
PostRaised(exc) ==
    /\ Raise(exc)
    /\ UNCHANGED <<node, prep_res, exec_res, frame, label, calls>>

(***************************************************************************)
(* ClarifyGoalNode                                                         *)
(***************************************************************************)
ClarifyPrep ==
    /\ At("Clarify", "prep")
    /\ Prepared("Clarify", [NoPrep EXCEPT !.user_query = shared.user_query])
    /\ UNCHANGED <<shared, request, outcome, peer, lookup>>

\* what call_llm_json_async comes to on the answers to Clarify's request
ClarifyOutcomes == {CallLlmJson(r, "ResearchRequest") : r \in ClarifyResponses}

ClarifyExec ==
    /\ At("Clarify", "exec")
    /\ \E out \in ClarifyOutcomes : Executed(out)
    /\ UNCHANGED <<calls, request, outcome, peer, lookup>>

\* exec_res.get("constraints", {}) or {}
ConstraintsOf(res) ==
    IF Truthy(Get(res, "constraints", EmptyDict)) THEN Get(res, "constraints", EmptyDict)
    ELSE EmptyDict

ClarifyCommitKeepsAnswer(store, res) ==
    [store EXCEPT !.goal = Get(res, "goal", None),
                  !.constraints = ConstraintsOf(res),
                  !.reflection = res]

ClarifyCommitDraftsReport(store, res) ==
    [store EXCEPT !.goal = Get(res, "goal", None),
                  !.constraints = ConstraintsOf(res),
                  !.report = Word("draft")]

\* shared["goal"] = ...; shared["constraints"] = ...
ClarifyCommit(store, res) ==
    [store EXCEPT !.goal = Get(res, "goal", None),
                  !.constraints = ConstraintsOf(res)]

ClarifyPost ==
    /\ At("Clarify", "post")
    /\ IF IsDict(exec_res)
       THEN /\ shared' = ClarifyCommit(shared, exec_res)
            /\ Dispatch(Word("default"))
       ELSE /\ PostRaised("AttributeError")
            /\ UNCHANGED shared
    /\ UNCHANGED <<request, outcome, peer, lookup>>

(***************************************************************************)
(* PlanResearchNode                                                        *)
(***************************************************************************)
PlanPrep ==
    /\ At("Plan", "prep")
    /\ Prepared("Plan", [NoPrep EXCEPT !.goal = shared.goal,
                                       !.constraints = shared.constraints])
    /\ UNCHANGED <<shared, request, outcome, peer, lookup>>

PlanOutcomes == {CallLlmJson(r, "ResearchPlan") : r \in PlanResponses}

PlanExec ==
    /\ At("Plan", "exec")
    /\ \E out \in PlanOutcomes : Executed(out)
    /\ UNCHANGED <<calls, request, outcome, peer, lookup>>

ObservationCountsOneMore(verb, n) ==
    Str((IF verb = "Planned" THEN <<verb>> ELSE <<verb, "research", "for">>)
            \o <<ToString(n + 1), "subquestions.">>)

\* f"Planned {n} subquestions." and f"Executed research for {n} subquestions."
Observation(verb, n) ==
    Str((IF verb = "Planned" THEN <<verb>> ELSE <<verb, "research", "for">>)
            \o <<ToString(n), "subquestions.">>)

PlanPost ==
    /\ At("Plan", "post")
    /\ IF IsDict(exec_res) /\ HasLen(Get(exec_res, "subquestions", List(<<>>)))
       THEN /\ shared' = [shared EXCEPT
                    !.plan = exec_res,
                    !.last_action = Word("plan"),
                    !.last_observation =
                        Observation("Planned", PyLen(Get(exec_res, "subquestions", List(<<>>))))]
            /\ Dispatch(Word("decide"))
       ELSE /\ shared' = [shared EXCEPT !.plan = exec_res, !.last_action = Word("plan")]
            /\ PostRaised(IF IsDict(exec_res) THEN "TypeError" ELSE "AttributeError")
    /\ UNCHANGED <<request, outcome, peer, lookup>>

(***************************************************************************)
(* DecideNode                                                              *)
(***************************************************************************)
\* the counter's range in the model; the step budget keeps the run far below it
StepLimit == MAX_STEPS + 2

CountStepTwice(store) == [store EXCEPT !.steps = @ + 2]

CountStepDropsNotes(store) == [store EXCEPT !.steps = @ + 1, !.notes = EmptyDict]

\* shared.setdefault("steps", 0); shared["steps"] += 1
CountStep(store) == [store EXCEPT !.steps = @ + 1]

DecidePrep ==
    /\ At("Decide", "prep")
    /\ shared.steps < StepLimit
    /\ shared' = CountStep(shared)
    /\ Prepared("Decide",
                [NoPrep EXCEPT !.goal = shared.goal,
                               !.constraints = shared.constraints,
                               !.plan = shared.plan,
                               !.notes = shared.notes,
                               !.reflection = shared.reflection,
                               !.steps = CountStep(shared).steps,
                               !.last_action = shared.last_action,
                               !.last_observation = shared.last_observation])
    /\ UNCHANGED <<request, outcome, peer, lookup>>

BudgetSpentLate(p) == p.steps > MAX_STEPS

BudgetSpentNever(p) == FALSE

\* the step budget is spent: no model call
BudgetSpent(p) == p.steps >= MAX_STEPS

ForcedAction == MkDict({"action", "reason"},
                       LAMBDA w : IF w = "action" THEN Word("synthesize") ELSE Word("forced"))

DecideOutcomes == {CallLlmJson(r, "AgentAction") : r \in DecideResponses}

DecideExec ==
    /\ At("Decide", "exec")
    /\ IF BudgetSpent(prep_res)
       THEN /\ Executed(Returned(ForcedAction))
            /\ UNCHANGED calls
       ELSE /\ \E out \in DecideOutcomes : Executed(out)
            /\ calls' = [calls EXCEPT !.decide_llm = @ + 1]
    /\ UNCHANGED <<request, outcome, peer, lookup>>

\* DecideNode.post_async writes nothing and returns the action it was given
DecidePost ==
    /\ At("Decide", "post")
    /\ IF IsDict(exec_res)
       THEN Dispatch(Get(exec_res, "action", Word("synthesize")))
       ELSE PostRaised("AttributeError")
    /\ UNCHANGED <<shared, request, outcome, peer, lookup>>

(***************************************************************************)
(* SynthesizeNode                                                          *)
(***************************************************************************)
SynthesizePrep ==
    /\ At("Synthesize", "prep")
    /\ Prepared("Synthesize", [NoPrep EXCEPT !.goal = shared.goal,
                                             !.constraints = shared.constraints,
                                             !.notes = shared.notes,
                                             !.reflection = shared.reflection])
    /\ UNCHANGED <<shared, request, outcome, peer, lookup>>

\* the report the model writes from the prompt, or no content, or a failure
SynthesizeResponses == {Raises, NoContent, Text(<<"#", "Report">>)}

SynthesizeOutcomes == {CallLlm(r) : r \in SynthesizeResponses}

SynthesizeExec ==
    /\ At("Synthesize", "exec")
    /\ \E out \in SynthesizeOutcomes : Executed(out)
    /\ UNCHANGED <<calls, request, outcome, peer, lookup>>

SynthesizePost ==
    /\ At("Synthesize", "post")
    /\ shared' = [shared EXCEPT !.report = exec_res,
                                !.last_action = Word("synthesize"),
                                !.last_observation = Str(<<"Final", "report", "generated.">>)]
    /\ Dispatch(Word("default"))
    /\ UNCHANGED <<request, outcome, peer, lookup>>

(***************************************************************************)
(* search_web                                                              *)
(***************************************************************************)
\* what DDGS().text(query) comes to: an exception, or k items
ProviderRaises == [kind |-> "raise", hits |-> <<>>]

Hits(k) == [kind |-> "hits", hits |-> [j \in 1..k |-> Word("hit" \o ToString(j))]]

ProviderAnswers == {ProviderRaises} \cup {Hits(k) : k \in 0..MaxHits}

ResultEntry(item) ==
    MkDict({"title", "url", "snippet"}, LAMBDA w : item)

\* search_web: the provider's items are bound to `results`, `results` is bound
\* anew to an empty list, and the loop converts the items of that list
SearchWeb(provided) ==
    IF provided.kind = "raise" THEN Raised("SearchError", <<>>)
    ELSE LET results == <<>>
         IN  Returned(List([j \in 1..Len(results) |-> ResultEntry(results[j])]))

(***************************************************************************)
(* ExecutePlanNode                                                         *)
(***************************************************************************)
ExecutePrep ==
    /\ At("Execute", "prep")
    /\ Prepared("Execute", [NoPrep EXCEPT !.plan = shared.plan,
                                          !.goal = shared.goal,
                                          !.constraints = shared.constraints])
    /\ UNCHANGED <<shared, request, outcome, peer, lookup>>

SubquestionsLastFirst(plan) ==
    LET subqs == Get(plan, "subquestions", List(<<>>)).mem
    IN  [j \in 1..Len(subqs) |-> subqs[Len(subqs) + 1 - j]]

\* plan.get("subquestions", []), as the sequence the loop runs over
SubquestionsOf(plan) == Get(plan, "subquestions", List(<<>>)).mem

NotesOf(objective, summaries) ==
    MkDict({"subquestions", "overall_objective"},
           LAMBDA w : IF w = "subquestions" THEN List(summaries) ELSE objective)

\* exec_async returns its notes
ExecuteReturns(notes) ==
    /\ exec_res' = notes
    /\ phase' = "post"
    /\ frame' = NoFrame

\* exec_async up to its first call: the empty notes, then the first subquestion
ExecuteExec ==
    /\ At("Execute", "exec")
    /\ LET notes == NotesOf(Get(prep_res.plan, "overall_objective", None), <<>>)
       IN  IF SubquestionsOf(prep_res.plan) = <<>>
           THEN ExecuteReturns(notes)
           ELSE /\ frame' = [NoFrame EXCEPT !.i = 1, !.notes = notes]
                /\ phase' = "queries"
                /\ UNCHANGED exec_res
    /\ UNCHANGED <<shared, run, node, prep_res, label, error, calls, request, outcome, peer, lookup>>

\* the exception leaves exec_async with its locals
ExecuteRaises(exc) ==
    /\ Raise(exc)
    /\ UNCHANGED <<shared, node, prep_res, exec_res, frame, label, calls>>

\* seq[:n]
FirstN(seq, n) == IF Len(seq) <= n THEN seq ELSE SubSeq(seq, 1, n)

QueriesOutcomes == {CallLlmJson(r, "SearchQueries") : r \in QueriesResponses}

\* _generate_search_queries_async for the subquestion at frame.i, and the
\* step opened under the subquestion's id
ExecuteQueries ==
    /\ At("Execute", "queries")
    /\ LET subq == SubquestionsOf(prep_res.plan)[frame.i]
       IN  IF ~HasKey(subq, "description") THEN ExecuteRaises("KeyError")
           ELSE \E out \in QueriesOutcomes :
                      IF out.kind # "value" THEN ExecuteRaises(out.kind)
                      ELSE IF ~IsDict(out.val) THEN ExecuteRaises("AttributeError")
                      ELSE IF ~HasKey(subq, "id") THEN ExecuteRaises("KeyError")
                      ELSE /\ frame' = [frame EXCEPT
                                  !.queries = FirstN(Get(out.val, "queries", List(<<>>)).mem, MaxQueries),
                                  !.q = 1,
                                  !.aggregated = <<>>,
                                  !.log = Append(@, Call("queries", subq.mem[K("description")],
                                      FirstN(Get(out.val, "queries", List(<<>>)).mem, MaxQueries)))]
                           /\ phase' = IF Get(out.val, "queries", List(<<>>)).mem = <<>>
                                       THEN "summarize" ELSE "search"
                           /\ UNCHANGED <<shared, run, node, prep_res, exec_res, label, error, calls>>
    /\ UNCHANGED <<request, outcome, peer, lookup>>

SearchError(text) ==
    MkDict({"title", "url", "snippet"},
           LAMBDA w : IF w = "title" THEN Word("SEARCH_ERROR")
                      ELSE IF w = "url" THEN Str(<<>>)
                      ELSE text)

\* aggregated after the search for one query came to res
Aggregate(aggregated, res) ==
    IF res.kind = "value" THEN aggregated \o res.val.mem
    ELSE Append(aggregated, SearchError(Word(res.kind)))

\* one turn of `for q in queries`
ExecuteSearch ==
    /\ At("Execute", "search")
    /\ \E a \in ProviderAnswers :
         /\ frame' = [frame EXCEPT !.aggregated = Aggregate(frame.aggregated, SearchWeb(a)),
                                   !.q = @ + 1,
                                   !.log = Append(@, Call("search", frame.queries[frame.q], <<>>)),
                                   !.failed = IF a.kind = "raise" THEN @ + 1 ELSE @]
         /\ calls' = IF a.kind = "raise" THEN [calls EXCEPT !.search_failed = TRUE]
                                         ELSE [calls EXCEPT !.search_ok = TRUE]
    /\ phase' = IF frame.q = Len(frame.queries) THEN "summarize" ELSE "search"
    /\ UNCHANGED <<shared, run, node, prep_res, exec_res, label, error, request, outcome, peer, lookup>>

\* the summary the model writes when asked about a subquestion: the text names
\* the description the prompt gave it
SummaryText(subq) == <<"Summary", "of">> \o subq.mem[K("description")].txt

AppendSummaryFirst(summaries, summary) == <<summary>> \o summaries

\* notes["subquestions"].append(subq_notes["summary"])
AppendSummary(summaries, summary) == Append(summaries, summary)

\* _summarize_subquestion_async, the append to the notes, and the loop's next turn
ExecuteSummarize ==
    /\ At("Execute", "summarize")
    /\ LET subqs == SubquestionsOf(prep_res.plan)
           subq  == subqs[frame.i]
       IN  \E r \in {Raises, Text(SummaryText(subq))} :
             LET out == CallLlm(r)
                 notes == NotesOf(frame.notes.mem[K("overall_objective")],
                                  AppendSummary(frame.notes.mem[K("subquestions")].mem, out.val))
             IN  IF out.kind # "value" THEN ExecuteRaises(out.kind)
                 ELSE /\ IF frame.i = Len(subqs)
                         THEN ExecuteReturns(notes)
                         ELSE /\ frame' = [NoFrame EXCEPT
                                      !.i = frame.i + 1,
                                      !.notes = notes,
                                      !.log = Append(frame.log,
                                          Call("summary", subq.mem[K("description")], <<>>))]
                              /\ phase' = "queries"
                              /\ UNCHANGED exec_res
                      /\ UNCHANGED <<shared, run, node, prep_res, label, error, calls>>
    /\ UNCHANGED <<request, outcome, peer, lookup>>

ExecutePost ==
    /\ At("Execute", "post")
    /\ shared' = [shared EXCEPT
            !.notes = exec_res,
            !.last_action = Word("execute"),
            !.last_observation =
                Observation("Executed", PyLen(Get(exec_res, "subquestions", List(<<>>))))]
    /\ Dispatch(Word("decide"))
    /\ UNCHANGED <<request, outcome, peer, lookup>>

(***************************************************************************)
(* One run of the agent: main builds the store and runs the flow           *)
(***************************************************************************)
Clarify == ClarifyPrep \/ ClarifyExec \/ ClarifyPost

Plan == PlanPrep \/ PlanExec \/ PlanPost

Decide == DecidePrep \/ DecideExec \/ DecidePost

Execute ==
    \/ ExecutePrep
    \/ ExecuteExec
    \/ ExecuteQueries
    \/ ExecuteSearch
    \/ ExecuteSummarize
    \/ ExecutePost

Synthesize == SynthesizePrep \/ SynthesizeExec \/ SynthesizePost

Next == Clarify \/ Plan \/ Decide \/ Execute \/ Synthesize

Spec == Init /\ [][Next]_vars

\* every model call and every search call returns, and the flow goes on
SpecLive == Spec /\ WF_vars(Next)

(***************************************************************************)
(* Two user messages: main is called once for each, and the event loop     *)
(* goes from one run to the other at an await                              *)
(***************************************************************************)
\* the message whose run is going on
Me == 3 - peer.id

Query(id) == IF id = 1 THEN Word("query") ELSE Word("other")

\* the run of a message that main has just been called for
NewRun(id) ==
    [id |-> id, shared |-> [InitialShared EXCEPT !.user_query = Query(id)],
     run |-> "running", node |-> "Clarify", phase |-> "prep", prep_res |-> NoPrep,
     exec_res |-> None, frame |-> NoFrame, label |-> None, error |-> "", calls |-> NoCalls]

\* the run that is going on, as it waits at its await
Suspended(id) ==
    [id |-> id, shared |-> shared, run |-> run, node |-> node, phase |-> phase,
     prep_res |-> prep_res, exec_res |-> exec_res, frame |-> frame, label |-> label,
     error |-> error, calls |-> calls]

\* as if `shared` were one dict of the module, used by every run
OwnStoreOfModule(mine, current) == current

\* main: `shared = {...}` is a local of the call, a new dict for each message;
\* the run that resumes finds the dict it left
OwnStore(mine, current) == mine

\* the event loop leaves the run at its await and resumes the other run
Switch ==
    /\ peer' = Suspended(Me)
    /\ shared' = OwnStore(peer.shared, shared)
    /\ run' = peer.run
    /\ node' = peer.node
    /\ phase' = peer.phase
    /\ prep_res' = peer.prep_res
    /\ exec_res' = peer.exec_res
    /\ frame' = peer.frame
    /\ label' = peer.label
    /\ error' = peer.error
    /\ calls' = peer.calls
    /\ UNCHANGED <<request, outcome, lookup>>

\* the actions the model chooses for a message, one for each Decide
Script(id) == IF id = 1 THEN <<"execute", "synthesize">>
                        ELSE <<"plan", "execute", "synthesize">>

\* what the model and the search provider answer to each message: message 1
\* gets a plan of one subquestion, MinQueries queries for it and searches
\* that return; message 2 a plan of two subquestions, MaxQueries queries for
\* each and searches that all fail; no completion call fails
Told ==
    /\ run' # "error"
    /\ node = "Clarify" /\ phase = "exec" => exec_res' = TheRequest
    /\ node = "Plan" /\ phase = "exec" => exec_res' = PlanOf(Me)
    /\ node = "Decide" /\ phase = "exec" => exec_res' = ActionOf(Script(Me)[prep_res.steps])
    /\ node = "Synthesize" /\ phase = "exec" => exec_res' = Str(<<"#", "Report">>)
    /\ phase = "queries" => Len(frame'.queries) = IF Me = 1 THEN MinQueries ELSE MaxQueries
    /\ phase = "search" => frame'.failed = IF Me = 1 THEN 0 ELSE frame.q

TwoInit ==
    /\ FlowInit
    /\ request = NoRequest
    /\ outcome = NoOutcome
    /\ peer = NewRun(2)
    /\ lookup = NoLookup

Answered == Next /\ Told

SpecTwo == TwoInit /\ [][Answered \/ Switch]_vars

(***************************************************************************)
(* The completion client on its own: call_llm_json_async on one answer    *)
(***************************************************************************)
Symbols == {"{", "}", "[", "]", ",", ":", QT, WS, DIGIT, "x"}

\* every text of at most MaxText symbols
ShortTexts == UNION {[1..n -> Symbols] : n \in 0..MaxText}

\* the symbols of the prose around a JSON text
ProseSymbols == {"{", "}", "[", "]", QT, WS, "x"}

Prose == UNION {[1..n -> ProseSymbols] : n \in 0..MaxProse}

\* dicts of several shapes: empty, flat, with braces inside a string, nested
SampleObjects ==
    {EmptyDict,
     MkDict({"k"}, LAMBDA w : Num(<<DIGIT>>)),
     MkDict({"k", "n"}, LAMBDA w : IF w = "k" THEN Str(<<"}", "{">>) ELSE List(<<EmptyDict, None>>)),
     ActionOf("plan")}

Plain(response, response_model) ==
    [response |-> response, response_model |-> response_model,
     lead |-> <<>>, obj |-> None, trail |-> <<>>]

\* the JSON text of o between a leading and a trailing prose
Wrapped(lead, o, trail) ==
    [response |-> Text(lead \o JsonDumps(o) \o trail), response_model |-> "AgentAction",
     lead |-> lead, obj |-> o, trail |-> trail]

JsonRequests ==
    {Plain(Text(t), "AgentAction") : t \in ShortTexts}
        \cup {Wrapped(lead, o, trail) : lead \in Prose, o \in SampleObjects, trail \in Prose}
        \cup {Plain(r, "ResearchRequest") : r \in ClarifyResponses}
        \cup {Plain(r, "ResearchPlan") : r \in PlanResponses}
        \cup {Plain(r, "AgentAction") : r \in DecideResponses}
        \cup {Plain(r, "SearchQueries") : r \in QueriesResponses}

JsonInit ==
    /\ FlowInit
    /\ request \in JsonRequests
    /\ outcome = NoOutcome
    /\ peer = NoPeer
    /\ lookup = NoLookup

Complete ==
    /\ outcome = NoOutcome
    /\ outcome' = CallLlmJson(request.response, request.response_model)
    /\ UNCHANGED <<flowVars, request, peer, lookup>>

SpecJson == JsonInit /\ [][Complete]_vars

(***************************************************************************)
(* search_web on its own: one call on one answer of the provider          *)
(***************************************************************************)
\* search_web(query, num_results = 5)
DefaultNumResults == 5

QueriesTried == {Word("q" \o ToString(j)) : j \in 1..(MaxQueries + 1)}

\* DDGS().text(query, max_results = n): an exception, or at most n items
Provided(n) == {ProviderRaises} \cup {Hits(k) : k \in 0..(IF n < MaxHits THEN n ELSE MaxHits)}

Lookups ==
    UNION {{[query |-> q, num_results |-> n, provided |-> a, returned |-> NoOutcome] :
                q \in QueriesTried, a \in Provided(n)} : n \in 1..DefaultNumResults}

SearchInit ==
    /\ FlowInit
    /\ request = NoRequest
    /\ outcome = NoOutcome
    /\ peer = NoPeer
    /\ lookup \in Lookups

Search ==
    /\ lookup.returned = NoOutcome
    /\ lookup' = [lookup EXCEPT !.returned = SearchWeb(lookup.provided)]
    /\ UNCHANGED <<flowVars, request, outcome, peer>>

SpecSearch == SearchInit /\ [][Search]_vars

(***************************************************************************)
(* The step budget                                                         *)
(***************************************************************************)
\* C1: Decide is entered at most MAX_STEPS times in a run; the MAX_STEPS-th
\* entry makes no model call (the model was called on the entries before it
\* only), yields the action "synthesize", and the flow goes on to Synthesize.
C1_StepBudget ==
    /\ calls.Decide <= MAX_STEPS
    /\ calls.decide_llm <= calls.Decide
    /\ calls.decide_llm <= MAX_STEPS - 1
    /\ calls.Decide = MAX_STEPS =>
         /\ node \in {"Decide", "Synthesize", "none"}
         /\ node = "Decide" => run = "running"
         /\ node = "Decide" /\ phase = "post" =>
              Get(exec_res, "action", None) = Word("synthesize")
         /\ node # "Decide" => label \in {Word("synthesize"), Word("default")}

\* the MAX_STEPS-th Decide has sent the run to Synthesize
C1_Witness ==
    /\ calls.Decide = MAX_STEPS
    /\ calls.decide_llm = MAX_STEPS - 1
    /\ node = "Synthesize"
    /\ phase = "prep"
    /\ label = Word("synthesize")

\* C2: every run stops, whatever the model answers, when every model call and
\* every search call returns.
C2_Terminates == <>(run \in {"done", "error"})

\* a run whose Decide was always answered "plan" (nothing was ever executed)
\* has stopped after the MAX_STEPS-th Decide and Synthesize
C2_Witness ==
    /\ run = "done"
    /\ calls.Decide = MAX_STEPS
    /\ calls.Work = MAX_STEPS
    /\ shared.notes = EmptyDict
    /\ calls.Synthesize = 1

\* what Synthesize's completion call can return
SynthesizeProduced == {out.val : out \in {o \in SynthesizeOutcomes : o.kind = "value"}}

\* C3: a run that ends without an exception has run Synthesize exactly once
\* and last, and report holds what Synthesize produced.
C3_EndsWithSynthesize ==
    run = "done" =>
        /\ calls.Synthesize = 1
        /\ shared.last_action = Word("synthesize")
        /\ shared.report \in SynthesizeProduced

(***************************************************************************)
(* The stage graph                                                         *)
(***************************************************************************)
Stages == {"Clarify", "Plan", "Decide", "Execute", "Synthesize"}

EdgeTable ==
    {<<"Clarify", "default", "Plan">>,
     <<"Plan", "decide", "Decide">>,
     <<"Execute", "decide", "Decide">>,
     <<"Decide", "execute", "Execute">>,
     <<"Decide", "plan", "Plan">>,
     <<"Decide", "synthesize", "Synthesize">>,
     <<"Decide", "reflect", "Synthesize">>}

HasEdge(from, lbl) == \E e \in EdgeTable : e[1] = from /\ e[2] = lbl

Summaries(notes) == Get(notes, "subquestions", List(<<>>)).mem

\* the first n summaries are those of the plan's first n subquestions, in order
AlignedPrefix(summaries, plan, n) ==
    /\ Len(summaries) = n
    /\ \A j \in 1..n : summaries[j] = Str(SummaryText(SubquestionsOf(plan)[j]))

Aligned(notes, plan) ==
    AlignedPrefix(Summaries(notes), plan, Len(SubquestionsOf(plan)))

\* C5: Execute's notes hold one summary per subquestion of the plan, the i-th
\* the summary of the i-th subquestion: while the loop runs (i - 1 summaries
\* so far), when exec_async returns, and in the store after the commit,
\* whatever the searches came to.
C5_NotesAligned ==
    /\ At("Execute", "post") => Aligned(exec_res, prep_res.plan)
    /\ node = "Execute" /\ phase \in {"queries", "search", "summarize"} =>
         AlignedPrefix(Summaries(frame.notes), prep_res.plan, frame.i - 1)
    /\ shared.last_action = Word("execute") => Aligned(shared.notes, shared.plan)
    /\ shared.last_action = Word("execute") =>
         shared.notes.mem[K("overall_objective")] = Get(shared.plan, "overall_objective", None)

\* the notes of a plan of two or more subquestions were committed after
\* searches failed
C5_Witness ==
    /\ node = "Decide"
    /\ shared.last_action = Word("execute")
    /\ Len(Summaries(shared.notes)) >= 2
    /\ calls.search_failed
    /\ ~calls.search_ok

\* an empty plan's notes were committed
C5_WitnessEmpty ==
    /\ node = "Decide"
    /\ shared.last_action = Word("execute")
    /\ Summaries(shared.notes) = <<>>

(***************************************************************************)
(* Search failures                                                         *)
(***************************************************************************)
IsErrorEntry(e) == Get(e, "title", None) = Word("SEARCH_ERROR")

ErrorEntries(aggregated) == {j \in 1..Len(aggregated) : IsErrorEntry(aggregated[j])}

\* every failed search of the subquestion left exactly one SEARCH_ERROR entry
\* with an empty url and the error's text, every query of the subquestion was
\* issued before the summary, and no search failure ends the run
SearchFailuresKept ==
    /\ node = "Execute" /\ phase \in {"search", "summarize"} =>
         /\ Cardinality(ErrorEntries(frame.aggregated)) = frame.failed
         /\ \A j \in ErrorEntries(frame.aggregated) :
              /\ frame.aggregated[j].mem[K("url")] = Str(<<>>)
              /\ frame.aggregated[j].mem[K("snippet")] = Word("SearchError")
    /\ node = "Execute" /\ phase = "summarize" => frame.q = Len(frame.queries) + 1
    /\ error # "SearchError"

\* C6: a failed search call aborts nothing (one SEARCH_ERROR entry for it, the
\* other queries still issued, the summary still computed), and a run whose
\* search calls all failed and which no exception ended has reached Synthesize.
C6_SearchFailuresTolerated ==
    /\ SearchFailuresKept
    /\ run = "done" /\ calls.search_failed /\ ~calls.search_ok => calls.Synthesize = 1

(***************************************************************************)
(* Failed completion calls                                                 *)
(***************************************************************************)
\* the response model each stage hands to call_llm_json_async
ResponseModelOf(stage) ==
    IF stage = "Clarify" THEN "ResearchRequest"
    ELSE IF stage = "Plan" THEN "ResearchPlan"
    ELSE "AgentAction"

\* C7: a completion call that fails (the call raises, the answer cannot be
\* read, or the answer violates the response model) ends the run: the stage's
\* commit does not run on it, and report stays empty.
C7_FailedCompletionAborts ==
    /\ run = "error" => phase = "raised" /\ shared.report = Str(<<>>)
    /\ \A stage \in {"Clarify", "Plan", "Decide"} :
         At(stage, "post") => Conforms(ResponseModelOf(stage), exec_res)

(***************************************************************************)
(* The completion client                                                   *)
(***************************************************************************)
Completed == outcome # NoOutcome

Content == request.response.chars

\* C8: the client returns no JSON object that violates the response model (a
\* required key missing, an unknown key, an action outside the enum, a queries
\* list shorter than 3 or longer than 5).
C8_ReturnsOnlyConforming ==
    outcome.kind = "value" /\ IsDict(outcome.val) =>
        Conforms(request.response_model, outcome.val)

\* no "{" of the text has a "}" after it
NoBracePair(s) == ~\E i, j \in 1..Len(s) : i < j /\ s[i] = "{" /\ s[j] = "}"

\* the span from the first "{" to the last "}" (empty when there is no pair)
BraceSpan(s) == SubSeq(s, FindFrom(s, "{", 1), FindBack(s, "}", Len(s)))

IsJson(s) == JsonLoads(s).ok

\* C9 as stated: every text without a brace pair, and every text that neither
\* parse reads, raises the error that carries the text.
C9_NoBracePairRaises ==
    Completed /\ request.response.kind = "text"
              /\ (NoBracePair(Content) \/ (~IsJson(Content) /\ ~IsJson(BraceSpan(Content))))
        => outcome = Raised("ValueError", Content)

\* C9, amended: a text that is no JSON by itself and holds no brace pair, or
\* whose brace span is no JSON either, raises the error that carries the text,
\* and no value is returned.
C9_MalformedRaises ==
    Completed /\ request.response.kind = "text" /\ ~IsJson(Content)
              /\ (NoBracePair(Content) \/ ~IsJson(BraceSpan(Content)))
        => outcome = Raised("ValueError", Content)

\* a text without braces and a text whose braces hold no JSON were refused
C9_Witness ==
    /\ outcome.kind = "ValueError"
    /\ outcome.raw = Content
    /\ Content # <<>>
    /\ NoBracePair(Content)

IsWrapped == request.obj.kind = "obj"

WholeText == request.lead \o JsonDumps(request.obj) \o request.trail

Holds(s, c) == \E j \in 1..Len(s) : s[j] = c

IsBlank(s) == \A j \in 1..Len(s) : s[j] = WS

\* C10 as stated: the object comes back whatever the prose around its text.
C10_RoundTripAnyProse ==
    Completed /\ IsWrapped => outcome = Returned(request.obj)

\* C10, amended: the object comes back when the leading prose holds no "{",
\* the trailing prose holds no "}", and the whole text is not a JSON text of
\* its own (or the prose is blank).
C10_RoundTrip ==
    Completed /\ IsWrapped
              /\ ~Holds(request.lead, "{") /\ ~Holds(request.trail, "}")
              /\ (~IsJson(WholeText) \/ (IsBlank(request.lead) /\ IsBlank(request.trail)))
        => outcome = Returned(request.obj)

\* an object with braces inside was recovered from between two proses
C10_Witness ==
    /\ Completed /\ IsWrapped
    /\ request.lead # <<>> /\ request.trail # <<>>
    /\ ~IsJson(WholeText)
    /\ request.obj # EmptyDict
    /\ Holds(SubSeq(JsonDumps(request.obj), 2, Len(JsonDumps(request.obj)) - 1), "}")
    /\ outcome = Returned(request.obj)

(***************************************************************************)
(* The steps counter                                                       *)
(***************************************************************************)
\* the step in which DecideNode.prep_async runs
DecideInvoked == node = "Decide" /\ phase = "prep" /\ phase' = "exec"

\* C11: steps is 0 when the run starts; a step that invokes Decide adds exactly
\* 1 to it and every other step leaves it as it is (so it never decreases); in
\* every state it equals the number of Decide invocations made so far.
C11_StepsCountsDecides ==
    /\ shared.steps = 0
    /\ [](shared.steps = calls.Decide)
    /\ [][shared'.steps = IF DecideInvoked THEN shared.steps + 1 ELSE shared.steps]_vars

\* three Decide invocations were counted and Execute is at work
C11_Witness ==
    /\ shared.steps = 3
    /\ calls.Decide = 3
    /\ At("Execute", "search")

(***************************************************************************)
(* The phases of a stage and the shared store                              *)
(***************************************************************************)
\* prep_async or exec_async of the stage is what runs next (inside Execute's
\* exec_async: the next call of its loop)
BeforeCommit == run = "running" /\ phase \in {"prep", "exec", "queries", "search", "summarize"}

\* C12 as stated: no prep_async and no exec_async of any stage changes the
\* shared store.
C12_OnlyCommitWrites == [][BeforeCommit => shared' = shared]_vars

\* C12, amended: prep_async and exec_async leave the shared store as it is,
\* but for DecideNode.prep_async, which adds 1 to steps and changes nothing
\* else; so an exec_async that raises leaves the store as its stage's
\* prep_async left it.
C12_OnlyCommitAndCounterWrite ==
    [][BeforeCommit =>
          shared' = IF DecideInvoked THEN [shared EXCEPT !.steps = @ + 1] ELSE shared]_vars

\* Execute's exec_async raised at its second subquestion, with one summary in
\* its local notes: the store still holds the notes of before the stage
C12_Witness ==
    /\ run = "error"
    /\ node = "Execute"
    /\ frame.i = 2
    /\ Len(frame.notes.mem[K("subquestions")].mem) = 1
    /\ shared.notes = EmptyDict
    /\ shared.last_action = Word("plan")

(***************************************************************************)
(* One stage at a time                                                     *)
(***************************************************************************)
\* the order in which the flow awaits the phases: prep_async, exec_async (with
\* the calls of Execute's loop), post_async, then the next stage's prep_async
PhaseOrder ==
    {<<"prep", "exec">>, <<"exec", "post">>,
     <<"exec", "queries">>, <<"queries", "search">>, <<"queries", "summarize">>,
     <<"search", "search">>, <<"search", "summarize">>,
     <<"summarize", "queries">>, <<"summarize", "post">>,
     <<"post", "prep">>, <<"post", "ended">>}

\* C13: while the run goes on exactly one stage is active, in one phase; the
\* phases of a stage follow each other in order, the stage changes only in the
\* step that completes a commit, and a prepare begins only in such a step, at
\* the stage the commit's label leads to.
C13_StagesSequential ==
    /\ node = "Clarify" /\ phase = "prep"
    /\ [](run = "running" => node \in Stages)
    /\ [][/\ phase' = "raised" \/ <<phase, phase'>> \in PhaseOrder
          /\ node' # node => phase = "post"
          /\ phase' = "prep" =>
                /\ phase = "post"
                /\ label' # None
                /\ node' = Successors(node, EdgeLabel(label'))]_vars

\* Decide's prepare is about to begin for the second time: Execute's commit
\* has completed
C13_Witness ==
    /\ At("Decide", "prep")
    /\ calls.Decide = 1
    /\ shared.last_action = Word("execute")
    /\ shared.last_observation = Observation("Executed", 2)
    /\ exec_res = None

(***************************************************************************)
(* Two runs side by side                                                   *)
(***************************************************************************)
\* the store a message's run ends with when it runs alone and is answered as
\* Told says
AloneResult(id) ==
    [InitialShared EXCEPT
        !.user_query = Query(id),
        !.goal = Word("goal"),
        !.constraints = TheConstraints,
        !.plan = PlanOf(id),
        !.notes = NotesOf(Word("overall_objective"),
                          [j \in 1..id |-> Str(SummaryText(SubQ("Q" \o ToString(j))))]),
        !.report = Str(<<"#", "Report">>),
        !.steps = Len(Script(id)),
        !.last_action = Word("synthesize"),
        !.last_observation = Str(<<"Final", "report", "generated.">>)]

\* the store of a run holds what the run's own stages wrote, up to where the
\* run has come
OwnData(id, store, counted, state) ==
    /\ store.user_query = Query(id)
    /\ store.steps = counted.Decide
    /\ store.plan \in {EmptyDict, PlanOf(id)}
    /\ store.notes \in {EmptyDict, AloneResult(id).notes}
    /\ store.report \in {Str(<<>>), AloneResult(id).report}
    /\ state = "done" => store = AloneResult(id)

\* C14: however the two runs interleave, the store of each holds its own
\* query, steps counter, plan, notes and report, and a run that has ended
\* holds what it holds when it runs alone on the same answers; a step of one
\* run leaves the other run as it is.
C14_RunsIsolated ==
    /\ [](OwnData(Me, shared, calls, run) /\ OwnData(peer.id, peer.shared, peer.calls, peer.run))
    /\ [][peer' # peer => peer'.id = Me /\ peer' = Suspended(Me)]_vars

\* both runs are inside Execute's loop, each at an await: one between two
\* searches, the other before the summary of its second subquestion
C14_Witness ==
    /\ At("Execute", "search")
    /\ frame.q = 2
    /\ peer.run = "running"
    /\ peer.node = "Execute"
    /\ peer.phase = "summarize"
    /\ peer.frame.i = 2
    /\ shared.plan = PlanOf(1)
    /\ peer.shared.plan = PlanOf(2)

(***************************************************************************)
(* The committed plan                                                      *)
(***************************************************************************)
\* the plan Plan's post_async has written to the store, when there is one
PlanCommitted == shared.plan # EmptyDict /\ shared.last_action # None

\* C15: in every plan that Plan has committed and that conforms to
\* ResearchPlan, no two subquestions have the same id.
C15_UniqueIds ==
    PlanCommitted /\ ResearchPlan(shared.plan) =>
        LET subqs == SubquestionsOf(shared.plan)
        IN  \A i, j \in 1..Len(subqs) :
                i < j => subqs[i].mem[K("id")] # subqs[j].mem[K("id")]

(***************************************************************************)
(* The end of the flow                                                     *)
(***************************************************************************)
\* C16: a commit that returns a label without an edge from its stage stops
\* the run, and so does Synthesize's commit, which returns "default"; a run
\* stops without an error in no other step; once the run has stopped no stage
\* runs (nothing changes any more).
C16_StopsWithoutEdge ==
    /\ [](run = "done" => node = "none" /\ phase = "ended" /\ error = "")
    /\ [][/\ run = "running"
          /\ phase = "post" /\ phase' # "raised" /\ ~HasEdge(node, EdgeLabel(label')) =>
                run' = "done"
          /\ node = "Synthesize" /\ phase = "post" =>
                run' = "done" /\ label' = Word("default")
          /\ run' = "done" =>
                phase = "post" /\ ~HasEdge(node, EdgeLabel(label'))]_vars

\* Synthesize has returned "default" and the run has stopped
C16_Witness ==
    /\ run = "done"
    /\ node = "none"
    /\ label = Word("default")
    /\ shared.last_action = Word("synthesize")
    /\ calls.Synthesize = 1

(***************************************************************************)
(* What a commit writes                                                    *)
(***************************************************************************)
Fields == DOMAIN InitialShared

\* the fields the claim gives to each stage's commit
Writes(stage) ==
    IF stage = "Clarify" THEN {"goal", "constraints"}
    ELSE IF stage = "Plan" THEN {"plan", "last_action", "last_observation"}
    ELSE IF stage = "Execute" THEN {"notes", "last_action", "last_observation"}
    ELSE IF stage = "Synthesize" THEN {"report", "last_action", "last_observation"}
    ELSE {}

\* C17: a commit leaves every field of the store that is not its stage's own
\* as it is (Decide's commit leaves them all); no step changes user_query or
\* reflection, and no step outside Clarify changes goal or constraints.
C17_CommitFrames ==
    /\ [](shared.user_query = InitialShared.user_query /\ shared.reflection = EmptyDict)
    /\ [][/\ phase = "post" => \A f \in Fields \ Writes(node) : shared'[f] = shared[f]
          /\ node # "Clarify" =>
                shared'.goal = shared.goal /\ shared'.constraints = shared.constraints]_vars

\* every stage has committed: each field holds what its stage wrote
C17_Witness ==
    /\ run = "done"
    /\ shared.user_query = Word("query")
    /\ shared.goal = Word("goal")
    /\ shared.constraints = TheConstraints
    /\ shared.plan = PlanOf(2)
    /\ Len(Summaries(shared.notes)) = 2
    /\ shared.report = Str(<<"#", "Report">>)
    /\ shared.reflection = EmptyDict
    /\ shared.steps = 3

(***************************************************************************)
(* The observation a commit leaves                                         *)
(***************************************************************************)
\* the number of entries under "subquestions", 0 when the key is missing
CountOf(v) == Len(Get(v, "subquestions", List(<<>>)).mem)

\* a commit of the stage completes in this step
Commits(stage) == node = stage /\ phase = "post" /\ phase' # "raised"

\* C18: when Plan's commit completes, last_action is "plan" and
\* last_observation is "Planned N subquestions." with N the number of
\* subquestions of the plan now in the store; when Execute's commit completes,
\* last_action is "execute" and last_observation is "Executed research for N
\* subquestions." with N the length of notes.subquestions now in the store.
C18_Observations ==
    [][/\ Commits("Plan") =>
            /\ shared'.last_action = Word("plan")
            /\ shared'.last_observation =
                   Str(<<"Planned", ToString(CountOf(shared'.plan)), "subquestions.">>)
       /\ Commits("Execute") =>
            /\ shared'.last_action = Word("execute")
            /\ shared'.last_observation =
                   Str(<<"Executed", "research", "for",
                         ToString(CountOf(shared'.notes)), "subquestions.">>)]_vars

\* Execute has committed the notes of two subquestions, after a plan of two
C18_Witness ==
    /\ label = Word("decide")
    /\ shared.last_action = Word("execute")
    /\ shared.last_observation = Str(<<"Executed", "research", "for", "2", "subquestions.">>)
    /\ CountOf(shared.notes) = 2
    /\ CountOf(shared.plan) = 2

(***************************************************************************)
(* The order of the calls inside Execute                                   *)
(***************************************************************************)
\* the subquestions as the plan lists them
Listed == Get(prep_res.plan, "subquestions", List(<<>>)).mem

DescriptionOf(subq) == subq.mem[K("description")]

RECURSIVE InPlanOrder(_, _)
\* the calls are those for the subquestions k, k + 1, ... of the plan's list, one
\* subquestion after the other: the queries call, then a search for each of
\* the queries it came to, in their order, then the summary call
InPlanOrder(log, k) ==
    IF log = <<>> THEN TRUE
    ELSE LET n == Len(log[1].queries)
             m == Len(log) - 1
         IN  /\ k <= Len(Listed)
             /\ log[1].kind = "queries"
             /\ log[1].with = DescriptionOf(Listed[k])
             /\ \A j \in 1..(IF m < n THEN m ELSE n) :
                    log[1 + j] = Call("search", log[1].queries[j], <<>>)
             /\ m > n =>
                    /\ log[n + 2] = Call("summary", DescriptionOf(Listed[k]), <<>>)
                    /\ InPlanOrder(SubSeq(log, n + 3, Len(log)), k + 1)

\* the calls made for the subquestion that exec_async is at
Current(log) ==
    LET ends == {j \in 1..Len(log) : log[j].kind = "summary"}
        last == IF ends = {} THEN 0 ELSE CHOOSE j \in ends : \A e \in ends : e <= j
    IN  SubSeq(log, last + 1, Len(log))

Searches == Cardinality({j \in 1..Len(Current(frame.log)) : Current(frame.log)[j].kind = "search"})

\* the slice keeps the searches at MaxQueries at most, whatever the answer
SearchesClipped == At("Execute", "summarize") => Searches <= MaxQueries

\* C20: when Execute asks for a subquestion's summary it has made at least
\* MinQueries and at most MaxQueries search calls for it.
C20_SearchCount ==
    At("Execute", "summarize") => Searches >= MinQueries /\ Searches <= MaxQueries

(***************************************************************************)
(* The size of the committed plan                                          *)
(***************************************************************************)
\* C21: every plan that Plan has committed and that conforms to ResearchPlan
\* lists at least one subquestion.
C21_PlanNotEmpty ==
    PlanCommitted /\ ResearchPlan(shared.plan) => CountOf(shared.plan) >= 1

(***************************************************************************)
(* The report                                                              *)
(***************************************************************************)
\* Synthesize's post_async has returned: the flow ended on its "default"
SynthesizeCommitted == run = "done" /\ label = Word("default")

\* C22: report is the empty string in every state in which Synthesize's commit
\* has not completed, and the only step that changes it is Synthesize's commit.
C22_ReportEmptyBeforeSynthesize ==
    /\ [](~SynthesizeCommitted => shared.report = Str(<<>>))
    /\ [][shared'.report # shared.report => node = "Synthesize" /\ phase = "post"]_vars

\* Synthesize has its report in hand, after an Execute, and has not committed
C22_Witness ==
    /\ At("Synthesize", "post")
    /\ exec_res = Str(<<"#", "Report">>)
    /\ CountOf(shared.notes) >= 1
    /\ shared.report = Str(<<>>)

(***************************************************************************)
(* What a search returns                                                   *)
(***************************************************************************)
\* C23: when the provider yields items, search_web returns one entry of
\* title, url and snippet for each of them, in their order, and no more than
\* num_results; so it returns a non-empty list when the provider yields an item.
C23_OneEntryPerItem ==
    lookup.returned # NoOutcome /\ lookup.provided.kind = "hits" =>
        LET items == lookup.provided.hits
        IN  /\ lookup.returned = Returned(List([j \in 1..Len(items) |-> ResultEntry(items[j])]))
            /\ Len(items) <= lookup.num_results
            /\ items # <<>> => lookup.returned.val.mem # <<>>

(***************************************************************************)
(* Notes and plan                                                          *)
(***************************************************************************)
\* C24: while the run goes on with a plan that conforms to ResearchPlan,
\* notes that are not empty have one summary for each subquestion of the plan
\* in the store, and the plan's overall_objective.
C24_NotesDescribePlan ==
    run = "running" /\ shared.notes # EmptyDict /\ ResearchPlan(shared.plan) =>
        /\ CountOf(shared.notes) = CountOf(shared.plan)
        /\ Get(shared.notes, "overall_objective", None)
               = Get(shared.plan, "overall_objective", None)

(***************************************************************************)
(* The work of a run                                                       *)
(***************************************************************************)
\* C25: Clarify runs once and no more; Plan and Execute run MAX_STEPS times
\* at most between them, once before each Decide; Synthesize runs once at
\* most; Decide calls the model MAX_STEPS - 1 times at most.
C25_WorkBounded ==
    /\ calls.Clarify <= 1
    /\ node # "Clarify" \/ phase # "prep" => calls.Clarify = 1
    /\ calls.Work <= MAX_STEPS
    /\ calls.Decide <= calls.Work
    /\ calls.Work <= calls.Decide + 1
    /\ node = "Decide" => calls.Work = calls.Decide + (IF phase = "prep" THEN 1 ELSE 0)
    /\ calls.Synthesize <= 1
    /\ calls.decide_llm <= MAX_STEPS - 1

\* a run that used the whole budget, with research executed, has ended
C25_Witness ==
    /\ run = "done"
    /\ calls.Clarify = 1
    /\ calls.Work = MAX_STEPS
    /\ calls.Decide = MAX_STEPS
    /\ calls.decide_llm = MAX_STEPS - 1
    /\ calls.Synthesize = 1
    /\ CountOf(shared.notes) = 2

(***************************************************************************)
(* What Decide reads                                                       *)
(***************************************************************************)
\* the last_action and the last_observation that the stage's commit writes
Committed(stage, store) ==
    IF stage = "Plan"
    THEN <<Word("plan"),
           Str(<<"Planned", ToString(CountOf(store.plan)), "subquestions.">>)>>
    ELSE <<Word("execute"),
           Str(<<"Executed", "research", "for", ToString(CountOf(store.notes)), "subquestions.">>)>>

\* C26: the flow comes to Decide only from Plan or Execute, in the step that
\* completes that stage's commit, and the store then holds that stage's name
\* as last_action and the observation it committed; Decide's prepare, the
\* next step, reads these two values as they are, so what it reads is "plan"
\* or "execute", never nothing, "reflect" or "synthesize".
C26_DecideReadsLastStage ==
    /\ [](At("Decide", "prep") =>
             shared.last_action \in {Word("plan"), Word("execute")})
    /\ [][/\ node' = "Decide" /\ node # "Decide" =>
                /\ node \in {"Plan", "Execute"}
                /\ <<shared'.last_action, shared'.last_observation>> = Committed(node, shared')
          /\ DecideInvoked =>
                /\ prep_res'.last_action = shared.last_action
                /\ prep_res'.last_observation = shared.last_observation
                /\ prep_res'.last_action \in {Word("plan"), Word("execute")}
                /\ prep_res'.last_observation # None]_vars

\* Decide's second invocation has read what Execute committed
C26_Witness ==
    /\ At("Decide", "exec")
    /\ prep_res.steps = 2
    /\ prep_res.last_action = Word("execute")
    /\ prep_res.last_observation = Str(<<"Executed", "research", "for", "1", "subquestions.">>)

====
